---------------------------- MODULE Spec2Model ----------------------------
(***************************************************************************)
(* Model of the crypto package's KMS abstraction (Context canonical        *)
(* encoding, masterKeyKMS key derivation, GenerateKey / UnsealKey).        *)
(*                                                                         *)
(* Strings and byte slices are sequences of byte values.  A Go map is a    *)
(* function; the order in which `range` visits its keys is an input        *)
(* (`iter`), chosen freely by every action that ranges over the map.       *)
(*                                                                         *)
(* The primitives the package calls but does not implement are modelled    *)
(* symbolically: HMAC-SHA256 and the sio authenticated encryption are free *)
(* constructors (no collisions, no forgery without the key).               *)
(***************************************************************************)
EXTENDS Integers, Sequences, FiniteSets, TLC

(***************************************************************************)
(* Bounds of the model.                                                    *)
(***************************************************************************)
\* largest number of entries of a Context handed to WriteTo / AppendTo
MaxEntries == 3
\* largest number of bytes a failing io.Writer accepts before it fails
MaxRoom == 2

(***************************************************************************)
(* Byte literals of the canonical encoding.                                *)
(***************************************************************************)
LBrace == 123
RBrace == 125
Quote == 34
Colon == 58
Comma == 44

\* size of a data key, a master key and a derived key ([32]byte)
KeySize == 32
\* size sio.Encrypt must report for a sealed 32 byte key
SealedSize == 64

(***************************************************************************)
(* Input strings.                                                          *)
(***************************************************************************)
StrA == <<97>>
StrB == <<98>>
StrAB == <<97, 98>>
\* the bytes  ","b":"  : a value that closes its own quote and opens key b
StrInject == <<Quote, Comma, Quote, 98, Quote, Colon, Quote>>
\* the bytes  {"a":"  : a key ID that runs into the encoding of a context
StrBraceID == <<LBrace, Quote, 97, Quote, Colon, Quote>>
\* the bytes  {"b":"  : a value that holds the start of an encoding
StrBraceB == <<LBrace, Quote, 98, Quote, Colon, Quote>>

\* keys and values of the contexts handed to WriteTo / AppendTo
CtxKeys == {<<>>, StrA, StrAB, StrB}
CtxVals == {<<>>, StrInject}
\* keys of the contexts handed to GenerateKey / UnsealKey
KmsCtxKeys == {StrA, StrB}
KeyIDs == {StrA, StrBraceID}
\* key IDs and context values handed to deriveKey
DeriveKeyIDs == KeyIDs \cup {<<>>}
DeriveVals == CtxVals \cup {StrBraceB}
\* prefixes already in the buffer handed to AppendTo
Prefixes == {<<>>, <<RBrace, LBrace>>}

(***************************************************************************)
(* Context: map[string]string, possibly nil.                               *)
(***************************************************************************)
EmptyMap == [k \in {} |-> <<>>]
NilContext == [isNil |-> TRUE, m |-> EmptyMap]
MakeContext(m) == [isNil |-> FALSE, m |-> m]

\* the maps with at most n entries, keys in K, values in V
MapsUpTo(K, V, n) ==
  UNION {[D -> V] : D \in {E \in SUBSET K : Cardinality(E) <= n}}

\* the contexts handed to WriteTo / AppendTo
Contexts ==
  {NilContext} \cup
  {MakeContext(m) : m \in MapsUpTo(CtxKeys, CtxVals, MaxEntries)}
\* the contexts handed to GenerateKey / UnsealKey
KmsContexts ==
  {NilContext} \cup
  {MakeContext(m) :
     m \in MapsUpTo(KmsCtxKeys, CtxVals, Cardinality(KmsCtxKeys))}
\* the contexts handed to deriveKey
DeriveContexts ==
  {NilContext} \cup
  {MakeContext(m) :
     m \in MapsUpTo(KmsCtxKeys, DeriveVals, Cardinality(KmsCtxKeys))}

\* len(c)
CLen(c) == Cardinality(DOMAIN c.m)

\* every order in which `for k := range c` may visit the keys of c
IterOrders(c) ==
  LET D == DOMAIN c.m
      n == Cardinality(D)
  IN {s \in [1..n -> D] : \A i, j \in 1..n : i # j => s[i] # s[j]}

(***************************************************************************)
(* Go string comparison (a < b): byte-wise lexicographic.                  *)
(***************************************************************************)
StringLess(a, b) ==
  \E i \in 1..(Len(b)) :
     /\ i <= Len(a) + 1
     /\ \A j \in 1..(i - 1) : a[j] = b[j]
     /\ (i = Len(a) + 1 \/ a[i] < b[i])

\* insertion of k into the ascending sequence s
RECURSIVE InsertSorted(_, _)
InsertSorted(s, k) ==
  IF s = <<>> THEN <<k>>
  ELSE IF StringLess(k, Head(s)) THEN <<k>> \o s
  ELSE <<Head(s)>> \o InsertSorted(Tail(s), k)

RECURSIVE SortFrom(_, _)
SortFrom(sorted, rest) ==
  IF rest = <<>> THEN sorted
  ELSE SortFrom(InsertSorted(sorted, Head(rest)), Tail(rest))

\* sort.Strings(keys) / sort.Sort(sort.StringSlice(keys))
SortStrings(keys) == SortFrom(<<>>, keys)

(***************************************************************************)
(* Context.AppendTo                                                        *)
(***************************************************************************)
\* the single entry fast path (len(c) == 1)
AppendToSingle(c, iter, dst) ==
  LET k == iter[1]
  IN dst \o <<LBrace, Quote>> \o k \o <<Quote, Colon, Quote>> \o c.m[k]
         \o <<Quote, RBrace>>

\* the loop over sortedKeys, from index i on
RECURSIVE AppendEntries(_, _, _, _)
AppendEntries(c, sortedKeys, i, out) ==
  IF i > Len(sortedKeys) THEN out
  ELSE LET k == sortedKeys[i]
           entry == <<Quote>> \o k \o <<Quote, Colon, Quote>> \o c.m[k]
                      \o <<Quote>>
           sep == IF i < Len(sortedKeys) THEN <<Comma>> ELSE <<>>
       IN AppendEntries(c, sortedKeys, i + 1, out \o entry \o sep)

\* AppendToSorted without the call of sort.Strings
AppendToUnsorted(c, iter, dst) ==
  AppendEntries(c, iter, 1, dst \o <<LBrace>>) \o <<RBrace>>

\* the general path: copy the keys, sort them, write the entries
AppendToSorted(c, iter, dst) ==
  LET sortedKeys == SortStrings(iter)
  IN AppendEntries(c, sortedKeys, 1, dst \o <<LBrace>>) \o <<RBrace>>

AppendTo(c, iter, dst) ==
  IF CLen(c) = 0 THEN dst \o <<LBrace, RBrace>>
  ELSE IF CLen(c) = 1 THEN AppendToSingle(c, iter, dst)
  ELSE AppendToSorted(c, iter, dst)

(***************************************************************************)
(* io.Writer: buf is what it has accepted, room the number of bytes it     *)
(* still accepts before failing (limited = FALSE: it never fails).         *)
(***************************************************************************)
NoErr == "nil"
ErrWriter == "io: write failed"

NewWriter(limited, room) == [buf |-> <<>>, limited |-> limited, room |-> room]
Writers ==
  {NewWriter(FALSE, 0)} \cup {NewWriter(TRUE, r) : r \in 0..MaxRoom}

\* io.WriteString(w, s): (nn, err) and the writer afterwards
WriteString(w, s) ==
  IF ~w.limited
    THEN [w |-> [w EXCEPT !.buf = @ \o s], nn |-> Len(s), err |-> NoErr]
  ELSE IF Len(s) <= w.room
    THEN [w |-> [w EXCEPT !.buf = @ \o s, !.room = @ - Len(s)],
          nn |-> Len(s), err |-> NoErr]
  ELSE [w |-> [w EXCEPT !.buf = @ \o SubSeq(s, 1, w.room), !.room = 0],
        nn |-> w.room, err |-> ErrWriter]

(***************************************************************************)
(* Context.WriteTo                                                         *)
(***************************************************************************)
\* SprintfEntry with the format "\"%s\": \"%s\","
SprintfEntrySpaced(k, v) ==
  <<Quote>> \o k \o <<Quote, Colon, 32, Quote>> \o v \o <<Quote, Comma>>

\* fmt.Sprintf("\"%s\":\"%s\",", k, v)
SprintfEntry(k, v) ==
  <<Quote>> \o k \o <<Quote, Colon, Quote>> \o v \o <<Quote, Comma>>

\* the loop over sortedKeys, from index i on, then the closing brace
RECURSIVE WriteEntries(_, _, _, _, _)
WriteEntries(c, sortedKeys, i, w, n) ==
  IF i > Len(sortedKeys)
    THEN LET r == WriteString(w, <<RBrace>>)
         IN [w |-> r.w, n |-> n + r.nn, err |-> r.err]
  ELSE LET k == sortedKeys[i]
           full == SprintfEntry(k, c.m[k])
           s == IF i = Len(sortedKeys) THEN SubSeq(full, 1, Len(full) - 1)
                ELSE full
           r == WriteString(w, s)
       IN IF r.err # NoErr THEN [w |-> r.w, n |-> n + r.nn, err |-> r.err]
          ELSE WriteEntries(c, sortedKeys, i + 1, r.w, n + r.nn)

WriteTo(c, iter, w) ==
  LET sortedKeys == SortStrings(iter)
      r == WriteString(w, <<LBrace>>)
  IN IF r.err # NoErr THEN [w |-> r.w, n |-> r.nn, err |-> r.err]
     ELSE WriteEntries(c, sortedKeys, 1, r.w, r.nn)

(***************************************************************************)
(* Byte arrays and the primitives of the environment.                      *)
(***************************************************************************)
\* a [32]byte filled with b
Filled(b) == [i \in 1..KeySize |-> b]
\* var key [32]byte
ZeroKey == Filled(0)

\* the values a full read of rand.Reader yields
DataKeys == {Filled(7), Filled(9)}

ErrUnexpectedEOF == "unexpected EOF"
ErrOutOfEntropy == "Unable to read enough randomness from the system"
ErrEncrypt == "KMS: unable to encrypt data key"
ErrSio == "sio: data is not authentic"
ErrCreateKey == "crypto: creating keys is not supported by a static master key"

\* io.ReadFull(rand.Reader, key[:]): the bytes it stored and its error
FullReads == {[data |-> k, err |-> NoErr] : k \in DataKeys}
ShortRead == [data |-> SubSeq(Filled(7), 1, KeySize \div 2),
              err |-> ErrUnexpectedEOF]

\* what the environment lets sio.Encrypt do
EncOutcomes == {"ok", "error", "short"}

\* what rand.Reader and sio.Encrypt do during one GenerateKey; sio.Encrypt is
\* not reached ("none") when the read fails
GenerateInputs ==
  {<<ShortRead, "none">>} \cup {<<r, o>> : r \in FullReads, o \in EncOutcomes}

\* key[:] after ReadFull stored r.data into it
KeyAfterRead(r) ==
  [i \in 1..KeySize |-> IF i <= Len(r.data) THEN r.data[i] ELSE 0]

\* hmac.New(sha256.New, key), mac.Write(p), mac.Sum(key[:0])
MacNew(key) == [key |-> key, msg |-> <<>>]
MacWrite(mac, p) == [mac EXCEPT !.msg = @ \o p]
MacSum(mac) == mac
NoKey == MacNew(<<>>)

\* a sealed blob: the sio package holding pt under key, or bytes that are none
SioSeal(key, pt) == [kind |-> "sealed", key |-> key, pt |-> pt]
Garbage == [kind |-> "garbage", key |-> NoKey, pt |-> <<>>]
NoBlob == [kind |-> "none", key |-> NoKey, pt |-> <<>>]
\* a sealed blob with its last byte cut off
Truncated(blob) == [blob EXCEPT !.kind = "garbage"]
\* len(blob): 16 byte header and 16 byte tag around the payload
BlobLen(blob) ==
  IF blob.kind = "sealed" THEN Len(blob.pt) + (SealedSize - KeySize)
  ELSE IF blob.kind = "garbage" THEN Len(blob.pt) + (SealedSize - KeySize) - 1
  ELSE 0

\* sio.Encrypt(&buffer, bytes.NewReader(pt), sio.Config{Key: key}):
\* (n, err) and the buffer afterwards
SioEncrypt(pt, key, outcome) ==
  IF outcome = "ok"
    THEN [buffer |-> SioSeal(key, pt), n |-> BlobLen(SioSeal(key, pt)),
          err |-> NoErr]
  ELSE IF outcome = "short"
    THEN [buffer |-> Truncated(SioSeal(key, pt)),
          n |-> BlobLen(Truncated(SioSeal(key, pt))), err |-> NoErr]
  ELSE [buffer |-> NoBlob, n |-> 0, err |-> ErrSio]

\* sio.DecryptBuffer(dst, src, sio.Config{Key: key}): (out, err)
SioDecryptBuffer(dst, src, key) ==
  IF src.kind = "sealed" /\ src.key = key
    THEN [out |-> dst \o src.pt, err |-> NoErr]
  ELSE [out |-> <<>>, err |-> ErrSio]

\* KeyAfterDecrypt had DecryptBuffer been handed nil instead of key[:0]
KeyAfterDecryptDetached(r) == ZeroKey

\* key[:] after DecryptBuffer appended out to key[:0]: the bytes land in the
\* array while they fit its capacity
KeyAfterDecrypt(r) ==
  IF r.err = NoErr /\ Len(r.out) <= KeySize
    THEN [i \in 1..KeySize |-> IF i <= Len(r.out) THEN r.out[i] ELSE 0]
  ELSE ZeroKey

\* logger.CriticalIf(ctx, err): TRUE when it stops the calling operation
CriticalIf(err) == err # NoErr

(***************************************************************************)
(* masterKeyKMS                                                            *)
(***************************************************************************)
VARIABLES
  kms,    \* the backend: [keyID, masterKey]
  given,  \* the arguments NewMasterKey was called with
  ret     \* the last call: its arguments, locals and results

vars == <<kms, given, ret>>

\* NewMasterKey(keyID, key)
NewMasterKey(keyID, key) == [keyID |-> keyID, masterKey |-> key]

Blank ==
  [op |-> "NewMasterKey", keyID |-> <<>>, ctx |-> NilContext,
   sealedKey |-> NoBlob, key |-> ZeroKey, err |-> NoErr, returned |-> TRUE,
   critical |-> NoErr, derivedKey |-> NoKey, rndLen |-> 0, rndErr |-> NoErr,
   enc |-> "none",
   n |-> 0, blob |-> "none", genKeyID |-> <<>>, genCtx |-> NilContext,
   genKey |-> ZeroKey, genDerived |-> NoKey, decLen |-> 0, decErr |-> NoErr,
   info |-> <<>>, dst |-> <<>>, output |-> <<>>, w |-> NewWriter(FALSE, 0)]

\* deriveKey with the two mac.Write calls in the other order
deriveKeyContextFirst(k, keyID, context, iter) ==
  LET ctx == IF context.isNil THEN MakeContext(EmptyMap) ELSE context
      mac1 == MacWrite(MacNew(k.masterKey), AppendTo(ctx, iter, <<>>))
  IN MacSum(MacWrite(mac1, keyID))

\* deriveKey without mac.Write([]byte(keyID))
deriveKeyNoKeyID(k, keyID, context, iter) ==
  LET ctx == IF context.isNil THEN MakeContext(EmptyMap) ELSE context
  IN MacSum(MacWrite(MacNew(k.masterKey), AppendTo(ctx, iter, <<>>)))

\* kms.deriveKey(keyID, context); iter is the order AppendTo ranges in
deriveKey(k, keyID, context, iter) ==
  LET ctx == IF context.isNil THEN MakeContext(EmptyMap) ELSE context
      mac0 == MacNew(k.masterKey)
      mac1 == MacWrite(mac0, keyID)
      mac2 == MacWrite(mac1, AppendTo(ctx, iter, <<>>))
  IN MacSum(mac2)

\* kms.DefaultKeyID()
DefaultKeyID ==
  /\ ret' = [Blank EXCEPT !.op = "DefaultKeyID", !.keyID = kms.keyID]
  /\ UNCHANGED <<kms, given>>

\* CreateKey reporting success
CreateKeySucceeds(keyID) ==
  /\ ret' = [Blank EXCEPT !.op = "CreateKey", !.keyID = keyID]
  /\ UNCHANGED <<kms, given>>

\* CreateKey making keyID the default key ID
CreateKeyStores(keyID) ==
  /\ ret' = [Blank EXCEPT !.op = "CreateKey", !.keyID = keyID,
                          !.err = ErrCreateKey]
  /\ kms' = [kms EXCEPT !.keyID = keyID]
  /\ UNCHANGED given

\* kms.CreateKey(keyID)
CreateKey(keyID) ==
  /\ ret' = [Blank EXCEPT !.op = "CreateKey", !.keyID = keyID,
                          !.err = ErrCreateKey]
  /\ UNCHANGED <<kms, given>>

\* kms.Info()
Info ==
  /\ ret' = [Blank EXCEPT !.op = "Info",
               !.info = [Endpoints |-> <<>>, Name |-> "",
                         AuthType |-> "master-key"]]
  /\ UNCHANGED <<kms, given>>

\* KeyReader over a key array the random bytes were never stored in
KeyReaderOfZeroKey(key) == ZeroKey

\* bytes.NewReader(key[:]): the bytes sio.Encrypt reads and seals
KeyReader(key) == key

\* SealFailed without the check of n
SealFailedErrOnly(e) == e.err # NoErr

\* err != nil || n != 64, of what sio.Encrypt returned
SealFailed(e) == e.err # NoErr \/ e.n # SealedSize

\* kms.GenerateKey(keyID, ctx), with what rand.Reader and sio.Encrypt do
GenerateKey(keyID, ctx, iter, rnd, outcome) ==
  LET key == KeyAfterRead(rnd)
      call == [Blank EXCEPT !.op = "GenerateKey", !.keyID = keyID,
                            !.ctx = ctx, !.rndLen = Len(rnd.data),
                            !.rndErr = rnd.err]
  IN
  /\ IF rnd.err # NoErr /\ CriticalIf(ErrOutOfEntropy)
       THEN ret' = [call EXCEPT !.returned = FALSE,
                                !.critical = ErrOutOfEntropy]
       ELSE LET derivedKey == deriveKey(kms, keyID, ctx, iter)
                e == SioEncrypt(KeyReader(key), derivedKey, outcome)
            IN IF SealFailed(e) /\ CriticalIf(ErrEncrypt)
                 THEN ret' = [call EXCEPT !.returned = FALSE,
                                !.critical = ErrEncrypt, !.enc = outcome,
                                !.derivedKey = derivedKey, !.n = e.n]
                 ELSE ret' = [call EXCEPT !.key = key,
                                !.sealedKey = e.buffer, !.err = NoErr,
                                !.enc = outcome, !.derivedKey = derivedKey,
                                !.n = e.n]
  /\ UNCHANGED <<kms, given>>

\* the sealed keys a caller may hand to UnsealKey: what GenerateKey just
\* returned ("fresh"), that blob cut short, a sealing of half a key under the
\* same derived key, the blob of the last UnsealKey once more ("again"), or
\* bytes that are no sio package
SealedInputs ==
  {"garbage"} \cup
  (IF ret.op = "GenerateKey" /\ ret.returned
     THEN {"fresh", "truncated", "resealed"} ELSE {}) \cup
  (IF ret.op = "UnsealKey" THEN {"again"} ELSE {})

\* the sealed key chosen, and the GenerateKey call it goes back to
SealedInput(blob) ==
  LET from == [blob |-> blob, genKeyID |-> ret.keyID, genCtx |-> ret.ctx,
               genKey |-> ret.key]
  IN IF blob = "fresh" THEN from @@ [sealedKey |-> ret.sealedKey]
     ELSE IF blob = "truncated"
       THEN from @@ [sealedKey |-> Truncated(ret.sealedKey)]
     ELSE IF blob = "resealed"
       THEN from @@ [sealedKey |->
                       SioSeal(ret.sealedKey.key,
                               SubSeq(ret.key, 1, KeySize \div 2))]
     ELSE IF blob = "again"
       THEN [blob |-> ret.blob, genKeyID |-> ret.genKeyID,
             genCtx |-> ret.genCtx, genKey |-> ret.genKey,
             sealedKey |-> ret.sealedKey]
     ELSE [blob |-> blob, genKeyID |-> <<>>, genCtx |-> NilContext,
           genKey |-> ZeroKey, sealedKey |-> Garbage]

\* kms.UnsealKey(keyID, sealedKey, ctx)
UnsealKey(keyID, blob, ctx, iter) ==
  LET in == SealedInput(blob)
      derivedKey == deriveKey(kms, keyID, ctx, iter)
      d == SioDecryptBuffer(<<>>, in.sealedKey, derivedKey)
      key == KeyAfterDecrypt(d)
      call == [Blank EXCEPT !.op = "UnsealKey", !.keyID = keyID, !.ctx = ctx,
                 !.sealedKey = in.sealedKey, !.blob = in.blob,
                 !.derivedKey = derivedKey, !.decLen = Len(d.out),
                 !.decErr = d.err, !.genKeyID = in.genKeyID,
                 !.genCtx = in.genCtx, !.genKey = in.genKey]
  IN
  /\ IF d.err # NoErr \/ Len(d.out) # KeySize
       THEN ret' = [call EXCEPT !.key = key, !.err = d.err]
       ELSE ret' = [call EXCEPT !.key = key, !.err = NoErr]
  /\ UNCHANGED <<kms, given>>

\* kms.deriveKey(keyID, context) called on its own; the call before it is
\* kept beside it
DeriveKeyCall(keyID, ctx, iter) ==
  /\ ret' = [Blank EXCEPT !.op = "deriveKey", !.keyID = keyID, !.ctx = ctx,
               !.derivedKey = deriveKey(kms, keyID, ctx, iter),
               !.blob = ret.op, !.genKeyID = ret.keyID, !.genCtx = ret.ctx,
               !.genDerived = ret.derivedKey]
  /\ UNCHANGED <<kms, given>>

(***************************************************************************)
(* Context operations as calls.                                            *)
(***************************************************************************)
\* c.AppendTo(dst)
AppendToCall(c, iter, dst) ==
  /\ ret' = [Blank EXCEPT !.op = "AppendTo", !.ctx = c, !.dst = dst,
                          !.output = AppendTo(c, iter, dst)]
  /\ UNCHANGED <<kms, given>>

\* c.WriteTo(w)
WriteToCall(c, iter, w) ==
  LET r == WriteTo(c, iter, w)
  IN /\ ret' = [Blank EXCEPT !.op = "WriteTo", !.ctx = c, !.w = r.w,
                             !.n = r.n, !.err = r.err]
     /\ UNCHANGED <<kms, given>>

(***************************************************************************)
(* Specifications.                                                         *)
(***************************************************************************)
\* the arguments of NewMasterKey
Backends ==
  {[keyID |-> StrA, key |-> Filled(0)], [keyID |-> StrBraceID, key |-> Filled(1)]}

Init ==
  /\ given \in Backends
  /\ kms = NewMasterKey(given.keyID, given.key)
  /\ ret = Blank

Next ==
  \/ DefaultKeyID
  \/ \E keyID \in KeyIDs : CreateKey(keyID)
  \/ Info
  \/ \E keyID \in KeyIDs, ctx \in KmsContexts, in \in GenerateInputs :
       \E iter \in IterOrders(ctx) :
          GenerateKey(keyID, ctx, iter, in[1], in[2])
  \/ \E keyID \in KeyIDs, ctx \in KmsContexts, blob \in SealedInputs :
       \E iter \in IterOrders(ctx) : UnsealKey(keyID, blob, ctx, iter)

\* the key management service
Spec == Init /\ [][Next]_vars

NextCtx ==
  \/ \E c \in Contexts, dst \in Prefixes :
       \E iter \in IterOrders(c) : AppendToCall(c, iter, dst)
  \/ \E c \in Contexts, w \in Writers :
       \E iter \in IterOrders(c) : WriteToCall(c, iter, w)

\* the canonical encoding of contexts
InitCtx ==
  /\ given = [keyID |-> StrA, key |-> Filled(0)]
  /\ kms = NewMasterKey(given.keyID, given.key)
  /\ ret = Blank

SpecCtx == InitCtx /\ [][NextCtx]_vars

NextDerive ==
  \E keyID \in DeriveKeyIDs, ctx \in DeriveContexts :
     \E iter \in IterOrders(ctx) : DeriveKeyCall(keyID, ctx, iter)

\* key derivation
SpecDerive == Init /\ [][NextDerive]_vars

(***************************************************************************)
(* The canonical encoding, stated without the code's paths: the entries    *)
(* "k":"v" joined by commas, keys strictly ascending byte by byte.         *)
(***************************************************************************)
RECURSIVE BytewiseLess(_, _)
BytewiseLess(a, b) ==
  IF b = <<>> THEN FALSE
  ELSE IF a = <<>> THEN TRUE
  ELSE Head(a) < Head(b) \/ (Head(a) = Head(b) /\ BytewiseLess(Tail(a), Tail(b)))

AscendingKeys(m) ==
  LET n == Cardinality(DOMAIN m)
  IN CHOOSE s \in [1..n -> DOMAIN m] :
       \A i, j \in 1..n : i < j => BytewiseLess(s[i], s[j])

QuotedEntry(k, v) == <<Quote>> \o k \o <<Quote, Colon, Quote>> \o v \o <<Quote>>

RECURSIVE JoinEntries(_, _)
JoinEntries(m, keys) ==
  IF keys = <<>> THEN <<>>
  ELSE IF Len(keys) = 1 THEN QuotedEntry(keys[1], m[keys[1]])
  ELSE QuotedEntry(keys[1], m[keys[1]]) \o <<Comma>> \o JoinEntries(m, Tail(keys))

Canonical(m) == <<LBrace>> \o JoinEntries(m, AscendingKeys(m)) \o <<RBrace>>

\* s holds no byte b
NoByte(s, b) == \A i \in 1..Len(s) : s[i] # b
\* no key and no value of c holds a quote
QuoteFree(c) ==
  \A k \in DOMAIN c.m : NoByte(k, Quote) /\ NoByte(c.m[k], Quote)

(***************************************************************************)
(* Claims.                                                                 *)
(***************************************************************************)

\* C1: round trip. When UnsealKey is handed the sealed key GenerateKey just
\* returned, with the key ID and the context (nil included) of that call, it
\* returns the 32 byte key GenerateKey returned and a nil error.
C1_RoundTrip ==
  (ret.op = "UnsealKey" /\ ret.blob = "fresh" /\ ret.keyID = ret.genKeyID
     /\ ret.ctx = ret.genCtx)
  => (ret.err = NoErr /\ ret.key = ret.genKey /\ Len(ret.key) = KeySize
        /\ ret.key \in DataKeys)

C1_Witness ==
  /\ ret.op = "UnsealKey" /\ ret.blob = "fresh"
  /\ ret.keyID = ret.genKeyID /\ ret.ctx = ret.genCtx
  /\ CLen(ret.ctx) = 2 /\ ret.err = NoErr /\ ret.key = Filled(9)

\* C2: UnsealKey returns a nil error only when the authenticated decryption
\* succeeded and the plaintext is exactly 32 bytes long; in every other case
\* the error is not nil.
C2_NilErrorOnlyForWholeKey ==
  ret.op = "UnsealKey"
  => (ret.err = NoErr <=> (ret.decErr = NoErr /\ ret.decLen = KeySize))

\* C3: binding. UnsealKey of the sealed key GenerateKey just returned fails
\* whenever its key ID differs from that call's or its context differs from
\* that call's as a mapping.
C3_Binding ==
  (ret.op = "UnsealKey" /\ ret.blob = "fresh"
     /\ (ret.keyID # ret.genKeyID \/ ret.ctx.m # ret.genCtx.m))
  => ret.err # NoErr

\* C4: canonical encoding. AppendTo onto an empty buffer yields "{", the
\* entries "k":"v" joined by "," with keys strictly ascending byte by byte,
\* "}" ("{}" for no entries), whatever the order the map is ranged in; and for
\* a single entry the general sorted path yields what the fast path yields.
C4_CanonicalEncoding ==
  ret.op = "AppendTo"
  => /\ ret.dst = <<>> => ret.output = Canonical(ret.ctx.m)
     /\ CLen(ret.ctx) = 0 => ret.output = ret.dst \o <<LBrace, RBrace>>
     /\ CLen(ret.ctx) = 1 =>
          \A iter \in IterOrders(ret.ctx) :
             AppendToSorted(ret.ctx, iter, ret.dst) = ret.output

C4_Witness ==
  /\ ret.op = "AppendTo" /\ ret.dst = <<>> /\ CLen(ret.ctx) = 3
  /\ StrAB \in DOMAIN ret.ctx.m /\ ret.ctx.m[StrAB] = StrInject
  /\ ret.output = Canonical(ret.ctx.m)

\* C5: GenerateKey returns only when all 32 bytes were read and sio.Encrypt
\* succeeded with 64 bytes of output, and then with a 64 byte sealed key and a
\* nil error; when the read fails, sio.Encrypt fails or reports another
\* length, the critical failure is reported and nothing is returned.
C5_ReturnsOnlySealedKey ==
  ret.op = "GenerateKey"
  => /\ ret.returned =>
          /\ ret.rndErr = NoErr /\ ret.rndLen = KeySize
          /\ ret.enc = "ok" /\ ret.n = SealedSize
          /\ ret.sealedKey.kind = "sealed"
          /\ BlobLen(ret.sealedKey) = SealedSize
          /\ ret.err = NoErr /\ ret.critical = NoErr
     /\ (ret.rndErr # NoErr \/ ret.enc \in {"error", "short"}) =>
          /\ ~ret.returned /\ ret.critical # NoErr
          /\ ret.key = ZeroKey /\ ret.sealedKey = NoBlob

C5_Witness ==
  /\ ret.op = "GenerateKey" /\ ~ret.returned
  /\ ret.enc = "short" /\ ret.critical = ErrEncrypt

\* C6: every CreateKey call returns an error that is not nil and leaves the
\* backend's master key and key ID as they were.
C6_CreateKeyUnsupported ==
  [][ret'.op = "CreateKey" => (ret'.err # NoErr /\ kms' = kms)]_vars

C6_Witness ==
  ret.op = "CreateKey" /\ ret.keyID # kms.keyID /\ ret.err = ErrCreateKey

\* C7: the stream and the buffer encoding agree. What WriteTo writes to a
\* writer that never fails is, behind any prefix dst, what AppendTo(dst)
\* returns, and the count WriteTo returns is the number of bytes it wrote.
C7_WriteToAgreesWithAppendTo ==
  (ret.op = "WriteTo" /\ ~ret.w.limited)
  => /\ ret.err = NoErr
     /\ ret.n = Len(ret.w.buf)
     /\ \A dst \in Prefixes : \A iter \in IterOrders(ret.ctx) :
           AppendTo(ret.ctx, iter, dst) = dst \o ret.w.buf

C7_Witness ==
  /\ ret.op = "WriteTo" /\ ~ret.w.limited /\ CLen(ret.ctx) = 3
  /\ ret.n = Len(ret.w.buf) /\ ret.n > 2

\* C8: deriveKey is the keyed hash, under the master key, of the bytes of
\* keyID directly followed by the canonical encoding of the context; a nil
\* context derives what the empty context derives, and two calls with the
\* same key ID and the same mapping derive the same key.
C8_DerivationFraming ==
  ret.op = "deriveKey"
  => /\ ret.derivedKey =
          [key |-> given.key, msg |-> ret.keyID \o Canonical(ret.ctx.m)]
     /\ (ret.blob = "deriveKey" /\ ret.genKeyID = ret.keyID
           /\ ret.genCtx.m = ret.ctx.m)
        => ret.genDerived = ret.derivedKey

C8_Witness ==
  /\ ret.op = "deriveKey" /\ ret.blob = "deriveKey"
  /\ ret.ctx.isNil /\ ~ret.genCtx.isNil /\ ret.genCtx.m = EmptyMap
  /\ ret.genKeyID = ret.keyID /\ ret.genDerived = ret.derivedKey
  /\ ret.derivedKey.msg = ret.keyID \o <<LBrace, RBrace>>

\* C9: no call changes the backend's master key or key ID, DefaultKeyID
\* returns the key ID NewMasterKey was given, and UnsealKey called again with
\* the same arguments returns the same key and error.
C9_Stateless ==
  /\ [](/\ kms = NewMasterKey(given.keyID, given.key)
        /\ ret.op = "DefaultKeyID" => ret.keyID = given.keyID)
  /\ [][(ret.op = "UnsealKey" /\ ret'.op = "UnsealKey"
           /\ ret'.keyID = ret.keyID /\ ret'.ctx = ret.ctx
           /\ ret'.sealedKey = ret.sealedKey)
        => (ret'.key = ret.key /\ ret'.err = ret.err)]_vars

C9_Witness ==
  /\ ret.op = "UnsealKey" /\ ret.blob = "fresh" /\ ret.err = NoErr
  /\ kms.keyID = StrBraceID /\ ret.keyID # kms.keyID

\* C10: over key IDs without "{" and contexts without a quote in any key or
\* value, two deriveKey calls whose key IDs differ or whose contexts differ as
\* mappings hash different inputs.
C10_FramingInjective ==
  (/\ ret.op = "deriveKey" /\ ret.blob = "deriveKey"
   /\ NoByte(ret.keyID, LBrace) /\ NoByte(ret.genKeyID, LBrace)
   /\ QuoteFree(ret.ctx) /\ QuoteFree(ret.genCtx)
   /\ (ret.keyID # ret.genKeyID \/ ret.ctx.m # ret.genCtx.m))
  => ret.derivedKey.msg # ret.genDerived.msg

C10_Witness ==
  /\ ret.op = "deriveKey" /\ ret.blob = "deriveKey"
  /\ NoByte(ret.keyID, LBrace) /\ NoByte(ret.genKeyID, LBrace)
  /\ QuoteFree(ret.ctx) /\ QuoteFree(ret.genCtx)
  /\ ret.keyID # ret.genKeyID /\ ret.ctx.m # ret.genCtx.m
  /\ CLen(ret.ctx) = 2
  /\ ret.derivedKey.msg # ret.genDerived.msg

=============================================================================
